---------------------------- MODULE Spec2Model ----------------------------
(***************************************************************************)
(* Model of the portal backend: the reservation storage entity             *)
(* (internal/storage/postgres/entities/reservation/reservation.go) and the *)
(* HTTP handlers deleteItem, logIn and me.                                  *)
(*                                                                         *)
(* The reservation table is the set of its rows.  A timestamp is an        *)
(* integer count of ticks since the Unix epoch.  The SQL statements are    *)
(* modelled by what they compute on the table; the database is assumed to  *)
(* execute every statement it is given (connection failures are outside    *)
(* the model).                                                             *)
(***************************************************************************)
EXTENDS Integers, Sequences, FiniteSets, TLC

VARIABLES
    reservation,  \* table "reservation": the set of its rows
    nextID,       \* next value of the serial column reservation_id
    ret,          \* the call that has just run: its arguments and what it returns
    pc,           \* interleaved InsertReservation calls: each caller's position
    call,         \* interleaved InsertReservation calls: each caller's arguments
    result,       \* interleaved InsertReservation calls: what each call returned
    items,        \* shop items in the store
    req,          \* the HTTP request being served
    resp,         \* what the handler wrote in answer to it
    invoked       \* the domain operations the handler invoked for it

resVars == <<reservation, nextID, ret>>
raceVars == <<pc, call, result>>
httpVars == <<items, req, resp, invoked>>
vars == <<reservation, nextID, ret, pc, call, result, items, req, resp, invoked>>

-----------------------------------------------------------------------------
(* Bounds of the model *)

\* largest timestamp (tick) a request may name
MaxTime == 2
\* number of reservation_id values the serial column hands out
MaxID == 2

\* largest item_id a delete request may name
MaxItem == 2
\* largest role number a token may carry
MaxRole == 4

\* roles.ShopEditor and roles.SuperAdmin: two distinct non-zero role numbers
ShopEditor == 2
SuperAdmin == 3

Times == 0..MaxTime
\* the intervals a booking request names: start < finish, the precondition
\* of InsertReservation (section 4.2); a query names any pair of timestamps
Intervals == { i \in Times \X Times : i[1] < i[2] }
UserIDs == {1, 2}

\* TIMESTAMP '0001-01-01 00:00:00', the zero time: 62135596800 s before the
\* Unix epoch.  The model keeps its sign and scales it to the tick range.
ZeroTimestamp == -62135
\* time.Time.UnixMilli: milliseconds per tick
MilliPerTick == 1000

\* rows of table "place": place_id, name, phone (nullable)
place ==
    { [place_id |-> 1, name |-> "A", phone |-> "NULL"],
      [place_id |-> 2, name |-> "B", phone |-> "22"] }

PlaceIDs == {p.place_id : p \in place}

NoRows == << >>
NilErr == ""

-----------------------------------------------------------------------------
(* SQL building blocks *)

Min2(a, b) == IF a <= b THEN a ELSE b
Max2(a, b) == IF a <= b THEN b ELSE a

\* mutant of OVERLAPS: the periods compared as closed intervals
OVERLAPSClosed(s1, e1, s2, e2) ==
    LET ts1 == Min2(s1, e1)
        te1 == Max2(s1, e1)
        ts2 == Min2(s2, e2)
        te2 == Max2(s2, e2)
    IN  IF ts1 > ts2 THEN ts1 <= te2
        ELSE IF ts1 < ts2 THEN ts2 <= te1
        ELSE TRUE

\* (s1, e1) OVERLAPS (s2, e2) on non-null timestamps: each pair is put in
\* order, then the periods are compared as half-open; equal starts overlap.
OVERLAPS(s1, e1, s2, e2) ==
    LET ts1 == Min2(s1, e1)
        te1 == Max2(s1, e1)
        ts2 == Min2(s2, e2)
        te2 == Max2(s2, e2)
    IN  IF ts1 > ts2 THEN ts1 < te2
        ELSE IF ts1 < ts2 THEN ts2 < te1
        ELSE TRUE

COALESCE(v, d) == IF v = "NULL" THEN d ELSE v

\* view place_and_reservation: every reservation joined with its place
place_and_reservation(tbl) ==
    { [place_id |-> p.place_id, name |-> p.name, phone |-> p.phone,
       user_id |-> r.user_id, start |-> r.start, finish |-> r.finish] :
      <<p, r>> \in {pr \in place \X tbl : pr[1].place_id = pr[2].place_id} }

\* SELECT reservation_id FROM reservation
\*   WHERE place_id = $1 AND (start, finish) OVERLAPS ($2, $3)
qrGetIsPlaceAvailable(tbl, a1, a2, a3) ==
    { r.reservation_id :
      r \in {x \in tbl : x.place_id = a1 /\ OVERLAPS(x.start, x.finish, a2, a3)} }

\* mutant of qrInsertReservation: VALUES ($1, $2, $3, $4), the arguments
\* taken in the order they are passed
qrInsertReservationInOrder(tbl, id, a1, a2, a3, a4) ==
    tbl \cup { [reservation_id |-> id, place_id |-> a1, start |-> a2,
                finish |-> a3, user_id |-> a4] }

\* INSERT INTO reservation (place_id, start, finish, user_id)
\*   VALUES ($1, $3, $4, $2); reservation_id comes from the serial column
qrInsertReservation(tbl, id, a1, a2, a3, a4) ==
    tbl \cup { [reservation_id |-> id, place_id |-> a1, start |-> a3,
                finish |-> a4, user_id |-> a2] }

\* UPDATE reservation SET place_id = $2, start = $3, finish = $4
\*   WHERE reservation_id = $1
qrUpdateReservation(tbl, a1, a2, a3, a4) ==
    { IF r.reservation_id = a1
        THEN [r EXCEPT !.place_id = a2, !.start = a3, !.finish = a4]
        ELSE r : r \in tbl }

\* DELETE FROM reservation WHERE reservation_id = $1
qrDeleteReservation(tbl, a1) ==
    { r \in tbl : r.reservation_id # a1 }

\* mutant of qrGetActualPlaces: the EXCEPT branch without its WHERE clause
qrGetActualPlacesExceptAll(tbl, a1, a2) ==
    LET taken == { r \in place_and_reservation(tbl) :
                     OVERLAPS(a1, a2, r.start, r.finish) }
        free  == { [place_id |-> p.place_id, name |-> p.name,
                    phone |-> COALESCE(p.phone, ""), is_available |-> TRUE,
                    user_id |-> 0, start |-> ZeroTimestamp,
                    finish |-> ZeroTimestamp] : p \in place }
        busy  == { [place_id |-> r.place_id, name |-> r.name,
                    phone |-> COALESCE(r.phone, ""), is_available |-> TRUE,
                    user_id |-> 0, start |-> ZeroTimestamp,
                    finish |-> ZeroTimestamp] : r \in place_and_reservation(tbl) }
        shown == { [place_id |-> r.place_id, name |-> r.name,
                    phone |-> COALESCE(r.phone, ""), is_available |-> FALSE,
                    user_id |-> r.user_id, start |-> r.start,
                    finish |-> r.finish] : r \in taken }
    IN  (free \ busy) \cup shown

\* mutant of qrGetActualPlaces: the EXCEPT branch compares the raw phone
\* column, so a place whose phone is NULL is not taken out
qrGetActualPlacesRawPhone(tbl, a1, a2) ==
    LET taken == { r \in place_and_reservation(tbl) :
                     OVERLAPS(a1, a2, r.start, r.finish) }
        free  == { [place_id |-> p.place_id, name |-> p.name,
                    phone |-> COALESCE(p.phone, ""), is_available |-> TRUE,
                    user_id |-> 0, start |-> ZeroTimestamp,
                    finish |-> ZeroTimestamp] : p \in place }
        busy  == { [place_id |-> r.place_id, name |-> r.name,
                    phone |-> r.phone, is_available |-> TRUE,
                    user_id |-> 0, start |-> ZeroTimestamp,
                    finish |-> ZeroTimestamp] : r \in taken }
        shown == { [place_id |-> r.place_id, name |-> r.name,
                    phone |-> COALESCE(r.phone, ""), is_available |-> FALSE,
                    user_id |-> r.user_id, start |-> r.start,
                    finish |-> r.finish] : r \in taken }
    IN  (free \ busy) \cup shown

\* (all places as available EXCEPT the places with an overlapping
\*  reservation) UNION (the overlapping reservations as unavailable)
qrGetActualPlaces(tbl, a1, a2) ==
    LET taken == { r \in place_and_reservation(tbl) :
                     OVERLAPS(a1, a2, r.start, r.finish) }
        free  == { [place_id |-> p.place_id, name |-> p.name,
                    phone |-> COALESCE(p.phone, ""), is_available |-> TRUE,
                    user_id |-> 0, start |-> ZeroTimestamp,
                    finish |-> ZeroTimestamp] : p \in place }
        busy  == { [place_id |-> r.place_id, name |-> r.name,
                    phone |-> COALESCE(r.phone, ""), is_available |-> TRUE,
                    user_id |-> 0, start |-> ZeroTimestamp,
                    finish |-> ZeroTimestamp] : r \in taken }
        shown == { [place_id |-> r.place_id, name |-> r.name,
                    phone |-> COALESCE(r.phone, ""), is_available |-> FALSE,
                    user_id |-> r.user_id, start |-> r.start,
                    finish |-> r.finish] : r \in taken }
    IN  (free \ busy) \cup shown

\* SELECT reservation_id, place_id, start, finish FROM reservation
\*   WHERE user_id = $1
qrGetReservationsByUserID(tbl, a1) ==
    { [reservation_id |-> r.reservation_id, place_id |-> r.place_id,
       start |-> r.start, finish |-> r.finish] :
      r \in {x \in tbl : x.user_id = a1} }

\* ORDER BY place_id: the orders in which the result set may come back
\* (rows with equal keys come in any order)
RECURSIVE OrderByPlaceID(_)
OrderByPlaceID(S) ==
    IF S = {} THEN { << >> }
    ELSE LET first == { r \in S : \A x \in S : r.place_id <= x.place_id }
         IN  UNION { { <<r>> \o t : t \in OrderByPlaceID(S \ {r}) } : r \in first }

\* ORDER BY start DESC
RECURSIVE OrderByStartDesc(_)
OrderByStartDesc(S) ==
    IF S = {} THEN { << >> }
    ELSE LET first == { r \in S : \A x \in S : r.start >= x.start }
         IN  UNION { { <<r>> \o t : t \in OrderByStartDesc(S \ {r}) } : r \in first }

\* time.Time.UnixMilli
UnixMilli(t) == t * MilliPerTick

\* the ActualPlace a result row is scanned into
ScanActualPlace(row) ==
    [PlaceID |-> row.place_id, Name |-> row.name, Phone |-> row.phone,
     Internet |-> "", SecondScreen |-> "",
     IsAvailable |-> row.is_available, UserID |-> row.user_id,
     Start |-> UnixMilli(row.start), Finish |-> UnixMilli(row.finish)]

\* the Reservation a result row is scanned into: user_id is not selected
ScanReservation(row) ==
    [ReservationID |-> row.reservation_id, PlaceID |-> row.place_id,
     Start |-> row.start, Finish |-> row.finish, UserID |-> 0]

ErrPlaceTaken ==
    "storage.postgres.entities.reservation.InsertReservation: place is already taken"

-----------------------------------------------------------------------------
(* Reservation entity, the calls executed one after another, each as one   *)
(* step; Return hands the result to the caller before the next call starts *)

Callers == {1, 2}

NoRet == [op |-> "none", args |-> << >>, err |-> NilErr, rows |-> NoRows]
\* a value of the request context: set by the middleware or absent
Absent(zero) == [set |-> FALSE, v |-> zero]
Value(x) == [set |-> TRUE, v |-> x]

NoCtx == [claims |-> Absent({}), username |-> Absent(""), role |-> Absent(0)]
NoBody == [kind |-> "empty", item_id |-> 0, login |-> "", password |-> ""]
NoExt == [deleteErr |-> FALSE, authStatus |-> FALSE, authErr |-> NilErr,
          token |-> "", tokenErr |-> NilErr]
NoReq == [handler |-> "none", ctx |-> NoCtx, body |-> NoBody, ext |-> NoExt]

NoUser == [UserID |-> 0, Username |-> "", Role |-> 0]
\* nothing written yet: no status code, no body
NoResp == [code |-> 0, status |-> "", error |-> "", token |-> "",
           user |-> NoUser, panicked |-> FALSE]

RaceIdle ==
    /\ pc = [c \in Callers |-> "idle"]
    /\ call = [c \in Callers |-> << >>]
    /\ result = [c \in Callers |-> NilErr]

HttpIdle ==
    /\ items = 1..MaxItem
    /\ req = NoReq
    /\ resp = NoResp
    /\ invoked = {}

InitRes ==
    /\ reservation = {}
    /\ nextID = 1
    /\ ret = NoRet
    /\ RaceIdle
    /\ HttpIdle

InsertReservation(placeID, userID, start, finish) ==
    /\ ret = NoRet
    /\ nextID <= MaxID
    /\ LET qrResult == qrGetIsPlaceAvailable(reservation, placeID, start, finish)
       IN  IF qrResult # {}
             THEN /\ ret' = [op |-> "InsertReservation",
                             args |-> <<placeID, userID, start, finish>>,
                             err |-> ErrPlaceTaken, rows |-> NoRows]
                  /\ UNCHANGED <<reservation, nextID>>
             ELSE /\ reservation' = qrInsertReservation(reservation, nextID,
                                        placeID, userID, start, finish)
                  /\ nextID' = nextID + 1
                  /\ ret' = [op |-> "InsertReservation",
                             args |-> <<placeID, userID, start, finish>>,
                             err |-> NilErr, rows |-> NoRows]
    /\ UNCHANGED <<raceVars, httpVars>>

UpdateReservation(reservationID, placeID, start, finish) ==
    /\ ret = NoRet
    /\ reservation' = qrUpdateReservation(reservation, reservationID, placeID,
                                          start, finish)
    /\ ret' = [op |-> "UpdateReservation",
               args |-> <<reservationID, placeID, start, finish>>,
               err |-> NilErr, rows |-> NoRows]
    /\ UNCHANGED <<nextID, raceVars, httpVars>>

DeleteReservation(reservationID) ==
    /\ ret = NoRet
    /\ reservation' = qrDeleteReservation(reservation, reservationID)
    /\ ret' = [op |-> "DeleteReservation", args |-> <<reservationID>>,
               err |-> NilErr, rows |-> NoRows]
    /\ UNCHANGED <<nextID, raceVars, httpVars>>

GetActualPlaces(start, finish) ==
    /\ ret = NoRet
    /\ \E qrResult \in OrderByPlaceID(qrGetActualPlaces(reservation, start, finish)) :
         ret' = [op |-> "GetActualPlaces", args |-> <<start, finish>>,
                 err |-> NilErr,
                 rows |-> [i \in 1..Len(qrResult) |-> ScanActualPlace(qrResult[i])]]
    /\ UNCHANGED <<reservation, nextID, raceVars, httpVars>>

GetReservationsByUserID(userID) ==
    /\ ret = NoRet
    /\ \E qrResult \in OrderByStartDesc(qrGetReservationsByUserID(reservation, userID)) :
         ret' = [op |-> "GetReservationsByUserID", args |-> <<userID>>,
                 err |-> NilErr,
                 rows |-> [i \in 1..Len(qrResult) |-> ScanReservation(qrResult[i])]]
    /\ UNCHANGED <<reservation, nextID, raceVars, httpVars>>

\* the call returns to its caller
Return ==
    /\ ret # NoRet
    /\ ret' = NoRet
    /\ UNCHANGED <<reservation, nextID, raceVars, httpVars>>

NextRes ==
    \/ \E p \in PlaceIDs, u \in UserIDs, i \in Intervals :
         InsertReservation(p, u, i[1], i[2])
    \/ \E id \in 1..MaxID, p \in PlaceIDs, i \in Intervals :
         UpdateReservation(id, p, i[1], i[2])
    \/ \E id \in 1..MaxID : DeleteReservation(id)
    \/ \E s \in Times, f \in Times : GetActualPlaces(s, f)
    \/ \E u \in UserIDs : GetReservationsByUserID(u)
    \/ Return

SpecRes == InitRes /\ [][NextRes]_vars

-----------------------------------------------------------------------------
(* InsertReservation called by two callers at once: the availability query *)
(* and the INSERT are two statements, and the statements of the two calls  *)
(* interleave                                                              *)

InitRace ==
    /\ reservation = {}
    /\ nextID = 1
    /\ ret = NoRet
    /\ RaceIdle
    /\ HttpIdle

InFlight == { c \in Callers : pc[c] \in {"check", "insert"} }

\* a caller enters InsertReservation
InsertReservationCall(c, placeID, userID, start, finish) ==
    /\ pc[c] = "idle"
    /\ nextID + Cardinality(InFlight) <= MaxID
    /\ pc' = [pc EXCEPT ![c] = "check"]
    /\ call' = [call EXCEPT ![c] = <<placeID, userID, start, finish>>]
    /\ result' = [result EXCEPT ![c] = NilErr]
    /\ UNCHANGED <<resVars, httpVars>>

\* storage.DB.Query(qrGetIsPlaceAvailable, ...) and the test of its result
InsertReservationCheck(c) ==
    /\ pc[c] = "check"
    /\ LET qrResult == qrGetIsPlaceAvailable(reservation, call[c][1],
                                             call[c][3], call[c][4])
       IN  IF qrResult # {}
             THEN /\ pc' = [pc EXCEPT ![c] = "done"]
                  /\ result' = [result EXCEPT ![c] = ErrPlaceTaken]
             ELSE /\ pc' = [pc EXCEPT ![c] = "insert"]
                  /\ UNCHANGED result
    /\ UNCHANGED <<call, resVars, httpVars>>

\* mutant of InsertReservationExec: the INSERT looks at the table again and
\* gives up when the place has been taken since the check
InsertReservationExecRechecked(c) ==
    /\ pc[c] = "insert"
    /\ IF qrGetIsPlaceAvailable(reservation, call[c][1], call[c][3],
                                call[c][4]) # {}
         THEN /\ result' = [result EXCEPT ![c] = ErrPlaceTaken]
              /\ UNCHANGED <<reservation, nextID>>
         ELSE /\ reservation' = qrInsertReservation(reservation, nextID,
                                    call[c][1], call[c][2], call[c][3],
                                    call[c][4])
              /\ nextID' = nextID + 1
              /\ result' = [result EXCEPT ![c] = NilErr]
    /\ pc' = [pc EXCEPT ![c] = "done"]
    /\ UNCHANGED <<call, ret, httpVars>>

\* storage.DB.Exec(qrInsertReservation, ...) and return nil
InsertReservationExec(c) ==
    /\ pc[c] = "insert"
    /\ reservation' = qrInsertReservation(reservation, nextID, call[c][1],
                                          call[c][2], call[c][3], call[c][4])
    /\ nextID' = nextID + 1
    /\ pc' = [pc EXCEPT ![c] = "done"]
    /\ result' = [result EXCEPT ![c] = NilErr]
    /\ UNCHANGED <<call, ret, httpVars>>

NextRace ==
    \/ \E c \in Callers, p \in PlaceIDs, u \in UserIDs, i \in Intervals :
         InsertReservationCall(c, p, u, i[1], i[2])
    \/ \E c \in Callers : InsertReservationCheck(c)
    \/ \E c \in Callers : InsertReservationExec(c)

SpecRace == InitRace /\ [][NextRace]_vars

-----------------------------------------------------------------------------
(* HTTP handlers.  A handler runs from the request to its last write; a    *)
(* failed type assertion or a nil dereference panics, which ends the       *)
(* handler with whatever it had written so far.                            *)

\* w.WriteHeader(code); render.JSON(w, r, resp.Error(msg))
RespError(code, msg) ==
    [NoResp EXCEPT !.code = code, !.status = "Error", !.error = msg]

\* render.JSON(w, r, resp.OK()) with no WriteHeader before it: status 200
RespOK == [NoResp EXCEPT !.code = 200, !.status = "OK"]

\* the handler panicked after writing r
Panic(r) == [r EXCEPT !.panicked = TRUE]

\* shop.Item.DeleteItem: the item is removed from the shop
DeleteItem(store, itemID) == store \ {itemID}

Call(op, item) == [op |-> op, item |-> item]

\* mutant of allowedRoles: every role that is set is allowed
allowedRolesAny == 1..MaxRole

allowedRoles == {ShopEditor, SuperAdmin}

\* render.DecodeJSON and validator.Struct of deleteItem.Request:
\* what the handler answers to a body it does not accept, NoResp otherwise
deleteItemBody(body) ==
    IF body.kind = "empty" THEN RespError(400, "empty request")
    ELSE IF body.kind = "malformed" THEN RespError(400, "failed to decode request")
    ELSE IF body.item_id = 0 THEN RespError(400, "field ItemID is a required field")
    ELSE NoResp

deleteItemNew(role, body, deleteErr) ==
    /\ req' = [NoReq EXCEPT !.handler = "deleteItem", !.ctx.role = role,
                            !.body = body, !.ext.deleteErr = deleteErr]
    /\ IF ~role.set
         THEN resp' = Panic(NoResp) /\ invoked' = {} /\ UNCHANGED items
       ELSE IF role.v = 0
         THEN /\ resp' = RespError(500, "no user role in token")
              /\ invoked' = {} /\ UNCHANGED items
       ELSE IF role.v \notin allowedRoles
         THEN /\ resp' = RespError(403, "access was denied")
              /\ invoked' = {} /\ UNCHANGED items
       ELSE IF deleteItemBody(body) # NoResp
         THEN /\ resp' = deleteItemBody(body)
              /\ invoked' = {} /\ UNCHANGED items
       ELSE IF deleteErr
         THEN /\ resp' = RespError(422, "failed to delete item from shop")
              /\ invoked' = {Call("DeleteItem", body.item_id)}
              /\ UNCHANGED items
       ELSE /\ resp' = RespOK
            /\ invoked' = {Call("DeleteItem", body.item_id)}
            /\ items' = DeleteItem(items, body.item_id)
    /\ UNCHANGED <<resVars, raceVars>>

\* mutant of logInBody: a body that does not decode is answered 422
logInBodyUnprocessable(body) ==
    IF body.kind = "empty" THEN RespError(400, "empty request")
    ELSE IF body.kind = "malformed" THEN RespError(422, "failed to decode request")
    ELSE IF body.login = "" THEN RespError(400, "field Login is a required field")
    ELSE IF body.password = ""
      THEN RespError(400, "field Password is a required field")
    ELSE NoResp

\* render.DecodeJSON and validator.Struct of logIn.Request
logInBody(body) ==
    IF body.kind = "empty" THEN RespError(400, "empty request")
    ELSE IF body.kind = "malformed" THEN RespError(400, "failed to decode request")
    ELSE IF body.login = "" THEN RespError(400, "field Login is a required field")
    ELSE IF body.password = ""
      THEN RespError(400, "field Password is a required field")
    ELSE NoResp

logInNew(body, authStatus, authErr, token, tokenErr) ==
    /\ req' = [NoReq EXCEPT !.handler = "logIn", !.body = body,
                            !.ext.authStatus = authStatus,
                            !.ext.authErr = authErr,
                            !.ext.token = token, !.ext.tokenErr = tokenErr]
    /\ IF logInBody(body) # NoResp
         THEN resp' = logInBody(body) /\ invoked' = {}
       ELSE IF ~authStatus
         THEN /\ invoked' = {Call("UserAuth", 0)}
              /\ IF authErr = NilErr
                   \* w.WriteHeader(400), then err.Error() on a nil error
                   THEN resp' = Panic([NoResp EXCEPT !.code = 400])
                   ELSE resp' = RespError(400, authErr)
       ELSE /\ invoked' = {Call("UserAuth", 0), Call("jwt.New", 0)}
            /\ resp' = [RespOK EXCEPT !.token = token]
    /\ UNCHANGED <<items, resVars, raceVars>>

\* tempUserID["user_id"] on a map kept as its set of <<key, value>> pairs
HasKey(m, k) == \E e \in m : e[1] = k
Lookup(m, k) == (CHOOSE e \in m : e[1] = k)[2]

meNew(claims, username, role) ==
    /\ req' = [NoReq EXCEPT !.handler = "me", !.ctx.claims = claims,
                            !.ctx.username = username, !.ctx.role = role]
    /\ resp' =
         IF ~claims.set THEN Panic(NoResp)
         ELSE IF ~HasKey(claims.v, "user_id")
           THEN RespError(500, "no user id in token claims")
         ELSE IF ~username.set THEN Panic(NoResp)
         ELSE IF username.v = "" THEN RespError(500, "no username in token")
         ELSE IF ~role.set THEN Panic(NoResp)
         ELSE IF role.v = 0 THEN RespError(500, "no user role in token")
         ELSE [RespOK EXCEPT !.user = [UserID |-> Lookup(claims.v, "user_id"),
                                       Username |-> username.v,
                                       Role |-> role.v]]
    /\ invoked' = {}
    /\ UNCHANGED <<items, resVars, raceVars>>

\* the requests the handlers are given
RoleValues == {Absent(0)} \cup {Value(r) : r \in 0..MaxRole}
DeleteBodies ==
    {[NoBody EXCEPT !.kind = k] : k \in {"empty", "malformed"}}
      \cup {[NoBody EXCEPT !.kind = "json", !.item_id = i] : i \in 0..MaxItem}
LogInBodies ==
    {[NoBody EXCEPT !.kind = k] : k \in {"empty", "malformed"}}
      \cup {[NoBody EXCEPT !.kind = "json", !.login = l, !.password = pw] :
              l \in {"", "bob"}, pw \in {"", "secret", "wrong"}}
\* what UserAuth returns: status, and an error or nil
AuthErrors ==
    {NilErr, "storage.postgres.entities.user.UserAuth: user not found",
     "storage.postgres.entities.user.UserAuth: wrong password"}
\* what jwt.New returns: a token, or an empty token and an error
Tokens == {<<"token", NilErr>>, <<"", "jwt.New: signing failed">>}
ClaimsValues ==
    {Absent({}), Value({}), Value({<<"role", 1>>})}
      \cup {Value({<<"user_id", u>>}) : u \in {0} \cup UserIDs}
UsernameValues == {Absent(""), Value(""), Value("bob")}

InitHttp ==
    /\ reservation = {}
    /\ nextID = 1
    /\ ret = NoRet
    /\ RaceIdle
    /\ HttpIdle

NextHttp ==
    \/ \E role \in RoleValues, body \in DeleteBodies, deleteErr \in BOOLEAN :
         deleteItemNew(role, body, deleteErr)
    \/ \E body \in LogInBodies, st \in BOOLEAN, e \in AuthErrors, t \in Tokens :
         logInNew(body, st, e, t[1], t[2])
    \/ \E c \in ClaimsValues, u \in UsernameValues, role \in RoleValues :
         meNew(c, u, role)

SpecHttp == InitHttp /\ [][NextHttp]_vars

-----------------------------------------------------------------------------
(* Properties of the reservation entity *)

\* the half-open intervals [s1, f1) and [s2, f2) share an instant
HalfOpenOverlap(s1, f1, s2, f2) == s1 < f2 /\ s2 < f1

\* the overlap relation of section 4.1: each pair of endpoints is a period
\* from its earlier to its later endpoint, half-open, an empty period
\* standing for its instant; two periods overlap when they share an instant
PeriodsOverlap(s1, f1, s2, f2) ==
    LET a1 == Min2(s1, f1)
        b1 == Max2(s1, f1)
        a2 == Min2(s2, f2)
        b2 == Max2(s2, f2)
    IN  \E t \in (Times \cup {s1, f1, s2, f2}) :
          /\ a1 <= t /\ (t < b1 \/ (a1 = b1 /\ t = a1))
          /\ a2 <= t /\ (t < b2 \/ (a2 = b2 /\ t = a2))

Overlapping(tbl, placeID, start, finish) ==
    { r \in tbl : r.place_id = placeID
                  /\ PeriodsOverlap(r.start, r.finish, start, finish) }

\* C1: after any sequence of InsertReservation, UpdateReservation and
\* DeleteReservation calls, each run as one step from the empty table, no two
\* distinct stored reservations of one place have overlapping [start, finish)
\* intervals.
C1_NoOverlappingReservations ==
    \A r1 \in reservation, r2 \in reservation :
      (r1 # r2 /\ r1.place_id = r2.place_id)
        => ~HalfOpenOverlap(r1.start, r1.finish, r2.start, r2.finish)

\* C3: an InsertReservation(place_id, user_id, start, finish) call run as one
\* step: if a stored reservation of place_id overlaps (start, finish) it
\* returns "place is already taken" and the table is unchanged; otherwise it
\* returns nil, exactly one row (place_id, start, finish, user_id) is added,
\* and GetReservationsByUserID(user_id) on the new table returns that
\* reservation, in whatever order the rows come back.
C3_InsertStep ==
    (ret = NoRet /\ ret'.op = "InsertReservation") =>
      LET a == ret'.args
      IN  IF Overlapping(reservation, a[1], a[3], a[4]) # {}
            THEN ret'.err = ErrPlaceTaken /\ reservation' = reservation
            ELSE /\ ret'.err = NilErr
                 /\ \E row \in reservation' :
                      /\ row \notin reservation
                      /\ reservation' = reservation \cup {row}
                      /\ row.place_id = a[1] /\ row.user_id = a[2]
                      /\ row.start = a[3] /\ row.finish = a[4]
                      /\ \A q \in OrderByStartDesc(
                                   qrGetReservationsByUserID(reservation', a[2])) :
                           \E i \in 1..Len(q) :
                             ScanReservation(q[i]) =
                               [ReservationID |-> row.reservation_id,
                                PlaceID |-> a[1], Start |-> a[3],
                                Finish |-> a[4], UserID |-> 0]

C3_InsertContract == [][C3_InsertStep]_vars

\* a successful insert into a place that already holds a reservation
C3_Witness ==
    /\ ret.op = "InsertReservation" /\ ret.err = NilErr
    /\ \E r \in reservation :
         r.place_id = ret.args[1] /\ r.reservation_id # nextID - 1

\* C10: the availability check of InsertReservation treats intervals as
\* half-open: a request (start, finish) with start < finish, on a place whose
\* stored reservations (s, f) all have s < f, is rejected if and only if for
\* one of them start < f and s < finish; a request that starts where a
\* reservation finishes, or finishes where one starts, is accepted.
C10_CheckStep ==
    (/\ ret = NoRet /\ ret'.op = "InsertReservation"
     /\ ret'.args[3] < ret'.args[4]
     /\ \A r \in reservation :
          r.place_id = ret'.args[1] => r.start < r.finish)
    => ( ret'.err = ErrPlaceTaken
           <=> \E r \in reservation :
                 /\ r.place_id = ret'.args[1]
                 /\ ret'.args[3] < r.finish /\ r.start < ret'.args[4] )

C10_HalfOpenCheck == [][C10_CheckStep]_vars

\* an accepted request that starts where a stored reservation finishes
C10_Witness ==
    /\ ret.op = "InsertReservation" /\ ret.err = NilErr
    /\ \E r \in reservation :
         /\ r.place_id = ret.args[1]
         /\ r.reservation_id # nextID - 1
         /\ r.finish = ret.args[3]

\* rows of a GetActualPlaces result that belong to a place
RowsOf(rows, placeID) == { i \in 1..Len(rows) : rows[i].PlaceID = placeID }

\* C6 as stated: for every place that no stored reservation overlaps in the
\* queried interval, GetActualPlaces returns exactly one row, available, with
\* user_id, start and finish all 0.
C6_AvailableRowZero ==
    ret.op = "GetActualPlaces" =>
      \A p \in PlaceIDs :
        Overlapping(reservation, p, ret.args[1], ret.args[2]) = {} =>
          /\ Cardinality(RowsOf(ret.rows, p)) = 1
          /\ \A i \in RowsOf(ret.rows, p) :
               /\ ret.rows[i].IsAvailable
               /\ ret.rows[i].UserID = 0
               /\ ret.rows[i].Start = 0 /\ ret.rows[i].Finish = 0

\* C6 as amended: for every place that no stored reservation overlaps in the
\* queried interval, GetActualPlaces returns exactly one row, available, with
\* user_id 0 and with start and finish the Unix-millisecond value of the
\* zero timestamp 0001-01-01 00:00:00, which is not 0.
C6_AvailableRow ==
    ret.op = "GetActualPlaces" =>
      \A p \in PlaceIDs :
        Overlapping(reservation, p, ret.args[1], ret.args[2]) = {} =>
          /\ Cardinality(RowsOf(ret.rows, p)) = 1
          /\ \A i \in RowsOf(ret.rows, p) :
               /\ ret.rows[i].IsAvailable
               /\ ret.rows[i].UserID = 0
               /\ ret.rows[i].Start = ZeroTimestamp * MilliPerTick
               /\ ret.rows[i].Finish = ZeroTimestamp * MilliPerTick
               /\ ret.rows[i].Start # 0

\* a query that misses every reservation of a place that has some
C6_Witness ==
    /\ ret.op = "GetActualPlaces"
    /\ \E p \in PlaceIDs :
         /\ \E r \in reservation : r.place_id = p
         /\ Overlapping(reservation, p, ret.args[1], ret.args[2]) = {}

\* C7: for every place of which exactly one stored reservation r overlaps
\* the queried interval, GetActualPlaces returns exactly one row, and it is
\* unavailable and carries r's user_id and r's start and finish (as Unix
\* milliseconds); the place has no available row.
C7_UnavailableRow ==
    ret.op = "GetActualPlaces" =>
      \A p \in PlaceIDs :
        LET ov == Overlapping(reservation, p, ret.args[1], ret.args[2])
        IN  Cardinality(ov) = 1 =>
              /\ Cardinality(RowsOf(ret.rows, p)) = 1
              /\ \A i \in RowsOf(ret.rows, p) : \A r \in ov :
                   /\ ~ret.rows[i].IsAvailable
                   /\ ret.rows[i].UserID = r.user_id
                   /\ ret.rows[i].Start = r.start * MilliPerTick
                   /\ ret.rows[i].Finish = r.finish * MilliPerTick

\* a query that meets exactly one of the two reservations of a place
C7_Witness ==
    /\ ret.op = "GetActualPlaces"
    /\ \E p \in PlaceIDs :
         /\ Cardinality({r \in reservation : r.place_id = p}) = 2
         /\ Cardinality(Overlapping(reservation, p, ret.args[1], ret.args[2])) = 1

-----------------------------------------------------------------------------
(* Properties of the interleaved InsertReservation calls *)

RowOf(c, tbl) ==
    { r \in tbl : /\ r.place_id = call[c][1] /\ r.user_id = call[c][2]
                  /\ r.start = call[c][3] /\ r.finish = call[c][4] }

\* C2: a call that has passed the availability check inserts its row and
\* returns nil whatever was inserted since the check, so two calls for one
\* place with overlapping intervals can both pass the check, both return
\* nil and both be stored (C2_Witness is that state).
C2_ExecStep ==
    \A c \in Callers :
      (pc[c] = "insert" /\ pc'[c] # "insert") =>
        /\ pc'[c] = "done"
        /\ result'[c] = NilErr
        /\ \E r \in RowOf(c, reservation') : r \notin reservation

C2_InsertAfterCheck == [][C2_ExecStep]_vars

\* both calls returned nil and their overlapping rows are both stored
C2_Witness ==
    /\ \A c \in Callers : pc[c] = "done" /\ result[c] = NilErr
    /\ call[1][1] = call[2][1]
    /\ HalfOpenOverlap(call[1][3], call[1][4], call[2][3], call[2][4])
    /\ \E r1 \in RowOf(1, reservation), r2 \in RowOf(2, reservation) :
         r1.reservation_id # r2.reservation_id

-----------------------------------------------------------------------------
(* Properties of the HTTP handlers *)

ValidDelete(body) == body.kind = "json" /\ body.item_id # 0
ValidLogIn(body) == body.kind = "json" /\ body.login # "" /\ body.password # ""
Unreadable(body) == body.kind \in {"empty", "malformed"}
Authorized(role) == role.v = ShopEditor \/ role.v = SuperAdmin

\* C4 as stated: in deleteItem, a ShopEditor or SuperAdmin with a valid body
\* has DeleteItem invoked for the item_id and gets 200 with status OK; every
\* other role gets 403 and DeleteItem is not invoked.
C4_DeleteAlways200Or403 ==
    (req.handler = "deleteItem" /\ req.ctx.role.set) =>
      /\ (Authorized(req.ctx.role) /\ ValidDelete(req.body)) =>
           /\ Call("DeleteItem", req.body.item_id) \in invoked
           /\ resp.code = 200 /\ resp.status = "OK"
      /\ ~Authorized(req.ctx.role) =>
           /\ resp.code = 403
           /\ invoked = {}

\* C4 as amended: in deleteItem, a ShopEditor or SuperAdmin with a valid body
\* has DeleteItem invoked for the item_id, and gets 200 with status OK when
\* DeleteItem succeeds and 422 when it fails; a
\* non-zero role outside the two gets 403 and a role of 0 gets 500, and in
\* neither case is DeleteItem invoked.
C4_DeleteByRole ==
    (req.handler = "deleteItem" /\ req.ctx.role.set) =>
      /\ (Authorized(req.ctx.role) /\ ValidDelete(req.body)) =>
           /\ invoked = {Call("DeleteItem", req.body.item_id)}
           /\ IF req.ext.deleteErr
                THEN resp.code = 422 /\ resp.status = "Error"
                ELSE resp.code = 200 /\ resp.status = "OK"
      /\ (~Authorized(req.ctx.role) /\ req.ctx.role.v # 0) =>
           /\ resp.code = 403 /\ resp.status = "Error"
           /\ invoked = {}
      /\ req.ctx.role.v = 0 =>
           /\ resp.code = 500 /\ resp.status = "Error"
           /\ invoked = {}

\* a SuperAdmin's valid delete, answered 200 after DeleteItem ran
C4_Witness ==
    /\ req.handler = "deleteItem"
    /\ req.ctx.role = Value(SuperAdmin)
    /\ ValidDelete(req.body)
    /\ resp.code = 200
    /\ invoked # {}

\* C5 as stated: deleteItem and logIn answer an empty or malformed body with
\* 400 and do not invoke DeleteItem or UserAuth, whatever the caller's role
\* (taken here over the requests whose context holds a role).
C5_UnreadableBodyAlways400 ==
    (/\ req.handler \in {"deleteItem", "logIn"}
     /\ Unreadable(req.body)
     /\ req.handler = "deleteItem" => req.ctx.role.set) =>
      /\ resp.code = 400
      /\ invoked = {}

\* C5 as amended: logIn answers an empty or malformed body with 400 and does
\* not invoke UserAuth.  deleteItem never invokes DeleteItem for such a body,
\* but it checks the role before it reads the body: it answers 400 only to a
\* ShopEditor or SuperAdmin, 500 to role 0, 403 to any other role, and
\* panics without an answer when the context holds no role.
C5_UnreadableBody ==
    /\ (req.handler = "logIn" /\ Unreadable(req.body)) =>
         /\ resp.code = 400 /\ resp.status = "Error" /\ ~resp.panicked
         /\ invoked = {}
    /\ (req.handler = "deleteItem" /\ Unreadable(req.body)) =>
         /\ invoked = {}
         /\ IF ~req.ctx.role.set THEN resp.panicked /\ resp.code = 0
            ELSE IF req.ctx.role.v = 0 THEN resp.code = 500
            ELSE IF ~Authorized(req.ctx.role) THEN resp.code = 403
            ELSE resp.code = 400 /\ resp.status = "Error"

\* an empty body sent to deleteItem by a ShopEditor, answered 400
C5_Witness ==
    /\ req.handler = "deleteItem"
    /\ req.ctx.role = Value(ShopEditor)
    /\ req.body.kind = "empty"
    /\ resp.code = 400 /\ invoked = {}

\* C8: in logIn with a valid body, when UserAuth reports success the answer
\* is 200 with status OK and a non-empty token, also when jwt.New returned an
\* error; when UserAuth reports failure, with or without an error value, the
\* handler completes with a 400 whose message is generic: it is none of the
\* error texts of UserAuth.
C8_LogInAnswer ==
    (req.handler = "logIn" /\ ValidLogIn(req.body)) =>
      IF req.ext.authStatus
        THEN resp.code = 200 /\ resp.status = "OK" /\ resp.token # ""
        ELSE /\ ~resp.panicked
             /\ resp.code = 400 /\ resp.status = "Error"
             /\ resp.error # ""
             /\ resp.error \notin AuthErrors

\* C9: in me, when user_id, username and role are all present the answer is
\* 200 with status OK and exactly those three values; when one of them is
\* absent (no claims map or no user_id key in it, no username or an empty
\* one, no role or role 0) the handler completes with a 500 and does not
\* panic.
C9_MeAnswer ==
    req.handler = "me" =>
      IF /\ req.ctx.claims.set /\ HasKey(req.ctx.claims.v, "user_id")
         /\ req.ctx.username.set /\ req.ctx.username.v # ""
         /\ req.ctx.role.set /\ req.ctx.role.v # 0
        THEN /\ resp.code = 200 /\ resp.status = "OK"
             /\ resp.user = [UserID |-> Lookup(req.ctx.claims.v, "user_id"),
                             Username |-> req.ctx.username.v,
                             Role |-> req.ctx.role.v]
        ELSE ~resp.panicked /\ resp.code = 500 /\ resp.status = "Error"

=============================================================================
